---- MODULE Spec2Model ----
(***************************************************************************)
(* Model of the spot-detection package: the pretrained-model registry      *)
(* (spotiflow/model/pretrained.py), the validated configuration objects    *)
(* (spotipy_torch/model/config.py) and the Feature Pyramid Network forward *)
(* pass (spotipy_torch/model/post.py).                                     *)
(*                                                                         *)
(* The components share no state.  Each has its own next-state relation    *)
(* and specification (SpecPretrained, SpecModelConfig, SpecTrainingConfig, *)
(* SpecFPN); the variables of the other components stay at their initial   *)
(* values.                                                                 *)
(***************************************************************************)
EXTENDS Integers, Sequences, FiniteSets, TLC

VARIABLES
    fs,             \* pretrained: the paths present under the cache directory
    get_file_calls, \* pretrained: log of the calls made to get_file
    pre_result,     \* pretrained: outcome of the last get_pretrained_model_path
    mc_args,        \* SpotipyModelConfig: arguments of the last construction
    mc_result,      \* SpotipyModelConfig: outcome of the last construction
    tc_args,        \* SpotipyTrainingConfig: arguments of the last construction
    tc_result,      \* SpotipyTrainingConfig: outcome of the last construction
    fpn,            \* FeaturePyramidNetwork: the constructed module
    fwd             \* FeaturePyramidNetwork.forward: the frame of the running call

vars == <<fs, get_file_calls, pre_result, mc_args, mc_result, tc_args, tc_result, fpn, fwd>>

preVars == <<fs, get_file_calls, pre_result>>
mcVars  == <<mc_args, mc_result>>
tcVars  == <<tc_args, tc_result>>
fpnVars == <<fpn, fwd>>

(***************************************************************************)
(* Bounds of the model.                                                    *)
(***************************************************************************)
MaxCalls == 3       \* calls of get_pretrained_model_path that reach get_file
MaxOverrides == 2   \* constructor arguments given a non-default value
MaxLevels == 3      \* feature maps handed to the FPN

(***************************************************************************)
(* ---------------- spotiflow/model/pretrained.py ----------------         *)
(* A path is the sequence of its components; a component is a record       *)
(* [stem, suffix] so that f"{name}.zip" is the component [name, ".zip"].   *)
(* <<>> is the user's home directory, Path("~").expanduser().              *)
(***************************************************************************)
Comp(stem, suffix) == [stem |-> stem, suffix |-> suffix]

Home == <<>>

\* Path.__truediv__ with a relative component; joining "" changes nothing.
Join(p, c) == IF c.stem = "" /\ c.suffix = "" THEN p ELSE Append(p, c)

\* Path.parent
Parent(p) == IF Len(p) = 0 THEN p ELSE SubSeq(p, 1, Len(p) - 1)

REGISTERED ==
    [ hybiss        |-> [url |-> "O4hqFSSGX6veLwa", md5_hash |-> "254afa97", is_3d |-> FALSE],
      general       |-> [url |-> "6AoTEgpIAeQMRvX", md5_hash |-> "9dd31a36", is_3d |-> FALSE],
      synth_complex |-> [url |-> "CiCjNJaJzpVVD2M", md5_hash |-> "d692fa21", is_3d |-> FALSE],
      synth_3d      |-> [url |-> "VhDqgDoHc11yP6v", md5_hash |-> "a031f128", is_3d |-> TRUE],
      smfish_3d     |-> [url |-> "Vym7tqiORZOP5Zt", md5_hash |-> "c5ab30ba", is_3d |-> TRUE] ]

list_registered == DOMAIN REGISTERED

\* The names a caller passes: the registered ones and some that are not.
Names == list_registered \cup {"", "unknown", "Hybiss", "models"}

cache_dir == Join(Join(Home, Comp(".spotiflow", "")), Comp("models", ""))

\* get_file(fname, origin, file_hash, cache_dir, cache_subdir, extract): where
\* the archive is stored, which is also the value returned.
GetFilePath(fname, cdir, cache_subdir) == Join(Join(cdir, cache_subdir), fname)

\* What get_file leaves on disk: the archive and, with extract, its folder.
GetFileEffect(files, fname, cdir, cache_subdir, extract) ==
    LET archive == GetFilePath(fname, cdir, cache_subdir)
    IN  files \cup {archive}
              \cup (IF extract THEN {Join(Parent(archive), Comp(fname.stem, ""))} ELSE {})

NoResult == [kind |-> "none", name |-> "", exc |-> "", path |-> <<>>]

IsRegistered_Only2D(name) == name \in DOMAIN REGISTERED /\ ~REGISTERED[name].is_3d

\* name in _REGISTERED
IsRegistered(name) == name \in DOMAIN REGISTERED

get_pretrained_model_path(name) ==
    IF ~IsRegistered(name)
    THEN /\ pre_result' = [kind |-> "raise", name |-> name,
                           exc |-> "NotRegisteredError", path |-> <<>>]
         /\ UNCHANGED <<fs, get_file_calls>>
    ELSE LET model == REGISTERED[name]
             fname == Comp(name, ".zip")
             path  == GetFilePath(fname, cache_dir, Comp("", ""))
         IN  /\ Len(get_file_calls) < MaxCalls
             /\ get_file_calls' = Append(get_file_calls,
                    [fname |-> fname, origin |-> model.url, file_hash |-> model.md5_hash,
                     cache_dir |-> cache_dir, extract |-> TRUE])
             /\ fs' = GetFileEffect(fs, fname, cache_dir, Comp("", ""), TRUE)
             /\ pre_result' = [kind |-> "return", name |-> name, exc |-> "",
                               path |-> Join(Parent(path), Comp(name, ""))]

PreInit ==
    /\ fs = {}
    /\ get_file_calls = <<>>
    /\ pre_result = NoResult

CallPretrained == \E name \in Names : get_pretrained_model_path(name)

(***************************************************************************)
(* ---------------- spotipy_torch/model/config.py ----------------         *)
(* Python values.  A value is a record [t, n, s, items]: t is the type's   *)
(* name, n the numeric payload, s the string payload and items the         *)
(* elements of a tuple or list.  A float carries its value in              *)
(* ten-thousandths (n = 3 is 3e-4, n = 5000 is 0.5); an int or bool        *)
(* carries its value.                                                      *)
(***************************************************************************)
PyInt(n)      == [t |-> "int", n |-> n, s |-> "", items |-> <<>>]
PyBool(b)     == [t |-> "bool", n |-> IF b THEN 1 ELSE 0, s |-> "", items |-> <<>>]
PyFloat(h)    == [t |-> "float", n |-> h, s |-> "", items |-> <<>>]
PyStr(s)      == [t |-> "str", n |-> 0, s |-> s, items |-> <<>>]
PyNone        == [t |-> "NoneType", n |-> 0, s |-> "", items |-> <<>>]
PyComplex     == [t |-> "complex", n |-> 0, s |-> "", items |-> <<>>]
PyTuple(xs)   == [t |-> "tuple", n |-> 0, s |-> "", items |-> xs]
PyList(xs)    == [t |-> "list", n |-> 0, s |-> "", items |-> xs]

\* isinstance(v, int): bool is a subclass of int.
IsInstanceInt(v) == v.t \in {"int", "bool"}
IsInstanceFloat(v) == v.t = "float"
IsInstanceStr(v) == v.t = "str"
IsInstanceTuple(v) == v.t = "tuple"
\* isinstance(v, numbers.Number)
IsInstanceNumber(v) == v.t \in {"int", "bool", "float", "complex"}

\* The numeric value of an int, bool or float, in ten-thousandths.
Scaled(v) == IF v.t = "float" THEN v.n ELSE 10000 * v.n

\* The types whose values compare with a number by <, <=, >, >=.
Orderable(v) == v.t \in {"int", "bool", "float"}
\* hash(v) is defined: lists are unhashable, and so are tuples holding one.
Hashable(v) == v.t # "list" /\ \A i \in DOMAIN v.items : v.items[i].t # "list"
\* iter(v) and len(v) are defined.
Iterable(v) == v.t \in {"tuple", "list"}

\* bool(v)
Truthy(v) ==
    CASE v.t \in {"int", "bool", "float"} -> v.n # 0
      [] v.t = "str" -> v.s # ""
      [] v.t = "NoneType" -> FALSE
      [] v.t \in {"tuple", "list"} -> v.items # <<>>
      [] OTHER -> TRUE

(***************************************************************************)
(* The value of an asserted expression: "True", "False", or "TypeError"    *)
(* when evaluating it raises.                                              *)
(***************************************************************************)
B(b) == IF b THEN "True" ELSE "False"

\* a and b, b evaluated only when a is true
AndThen(a, b) == IF a = "True" THEN b ELSE a
\* a or b, b evaluated only when a is false
OrElse(a, b) == IF a = "False" THEN b ELSE a

\* v > k and v >= k for an integer k
Gt(v, k) == IF Orderable(v) THEN B(Scaled(v) > 10000 * k) ELSE "TypeError"
Ge(v, k) == IF Orderable(v) THEN B(Scaled(v) >= 10000 * k) ELSE "TypeError"
\* k <= v
LeRev(k, v) == IF Orderable(v) THEN B(10000 * k <= Scaled(v)) ELSE "TypeError"
Le(v, k) == IF Orderable(v) THEN B(Scaled(v) <= 10000 * k) ELSE "TypeError"

\* v in {s1, s2, ...} for a set of strings: hashes v, then compares.
InStrSet(v, S) == IF Hashable(v) THEN B(v.t = "str" /\ v.s \in S) ELSE "TypeError"

\* all(r[1], r[2], ...) over a generator: stops at the first element that is
\* false or raises.
AllOf(r) ==
    LET bad == {i \in DOMAIN r : r[i] # "True"}
    IN  IF bad = {} THEN "True"
        ELSE r[CHOOSE i \in bad : \A j \in bad : i <= j]

\* The outcome of a run of assert statements: the first that does not hold.
FirstFailure(checks) ==
    LET r == AllOf(checks)
    IN  CASE r = "True" -> "ok"
          [] r = "False" -> "AssertionError"
          [] OTHER -> r

\* tuple((x, x) for _ in range(count)); range raises TypeError unless count is an int.
RangeOk(count) == IsInstanceInt(count)
Pairs(x, count) ==
    PyTuple([i \in 1 .. (IF count.n > 0 THEN count.n ELSE 0) |-> PyTuple(<<x, x>>)])

\* The flattening "for factor in xs for f in factor"
RECURSIVE Flatten(_)
Flatten(xs) == IF xs = <<>> THEN <<>> ELSE Head(xs).items \o Flatten(Tail(xs))

\* A keyword argument, or the parameter's default when it is not given.
Arg(kw, defaults, f) == IF f \in DOMAIN kw THEN kw[f] ELSE defaults[f]

Raised(exc) == [kind |-> "raise", exc |-> exc, cfg |-> <<>>]
Built(cfg) == [kind |-> "ok", exc |-> "", cfg |-> cfg]
NotBuilt == [kind |-> "none", exc |-> "", cfg |-> <<>>]
NoKwargs == [f \in {} |-> PyNone]


\* int == v, as len(...) == n_convs_per_level evaluates it
EqInt(k, v) == Orderable(v) /\ Scaled(v) = 10000 * k

\* all(isinstance(x, tuple) and len(x) == 2 for x in xs)
AllPairs(xs) ==
    IF ~Iterable(xs) THEN "TypeError"
    ELSE AllOf([i \in DOMAIN xs.items |->
                  B(IsInstanceTuple(xs.items[i]) /\ Len(xs.items[i].items) = 2)])

\* all(isinstance(k, int) and k > 0 for x in xs for k in x)
AllPositiveInts(xs) ==
    IF ~Iterable(xs) THEN "TypeError"
    ELSE LET flat == Flatten(xs.items)
         IN  AllOf([i \in DOMAIN flat |-> AndThen(B(IsInstanceInt(flat[i])), Gt(flat[i], 0))])

\* isinstance(v, int) and v > 0
PositiveInt(v) == AndThen(B(IsInstanceInt(v)), Gt(v, 0))

(***************************************************************************)
(* SpotipyModelConfig                                                      *)
(***************************************************************************)
ModelDefaults ==
    [ backbone |-> PyStr("unet"), in_channels |-> PyInt(1), out_channels |-> PyInt(1),
      initial_fmaps |-> PyInt(32), n_convs_per_level |-> PyInt(3),
      downsample_factor |-> PyInt(2), kernel_size |-> PyInt(3), padding |-> PyStr("same"),
      levels |-> PyInt(4), mode |-> PyStr("direct"), background_remover |-> PyBool(TRUE),
      batch_norm |-> PyBool(FALSE), downsample_factors |-> PyNone, kernel_sizes |-> PyNone,
      dropout |-> PyFloat(0) ]

\* The range() calls of lines 81 and 86 raise TypeError on a count that is no int.
ModelInitRaises(kw) ==
    LET a(f) == Arg(kw, ModelDefaults, f)
    IN  \/ a("downsample_factors") = PyNone /\ ~RangeOk(a("levels"))
        \/ a("kernel_sizes") = PyNone /\ ~RangeOk(a("n_convs_per_level"))

\* The attributes assigned by lines 75-95.
ModelInitFields(kw) ==
    LET a(f) == Arg(kw, ModelDefaults, f)
    IN  [ backbone |-> a("backbone"),
          in_channels |-> a("in_channels"),
          out_channels |-> a("out_channels"),
          initial_fmaps |-> a("initial_fmaps"),
          n_convs_per_level |-> a("n_convs_per_level"),
          downsample_factors |->
              IF a("downsample_factors") = PyNone
              THEN (IF RangeOk(a("levels"))
                    THEN Pairs(a("downsample_factor"), a("levels")) ELSE PyNone)
              ELSE a("downsample_factors"),
          kernel_sizes |->
              IF a("kernel_sizes") = PyNone
              THEN (IF RangeOk(a("n_convs_per_level"))
                    THEN Pairs(a("kernel_size"), a("n_convs_per_level")) ELSE PyNone)
              ELSE a("kernel_sizes"),
          padding |-> a("padding"),
          levels |-> a("levels"),
          mode |-> a("mode"),
          background_remover |-> PyBool(Truthy(a("background_remover"))),
          batch_norm |-> PyBool(Truthy(a("batch_norm"))),
          dropout |-> a("dropout") ]

\* The asserts of SpotipyModelConfig.is_valid, one operator per line.
valid_backbone(self) == InStrSet(self.backbone, {"resnet", "unet"})
valid_in_channels(self) == PositiveInt(self.in_channels)
valid_out_channels(self) == PositiveInt(self.out_channels)
valid_initial_fmaps(self) == PositiveInt(self.initial_fmaps)
valid_n_convs_per_level(self) == PositiveInt(self.n_convs_per_level)
valid_downsample_pairs(self) == AllPairs(self.downsample_factors)
valid_downsample_ints(self) == AllPositiveInts(self.downsample_factors)
valid_kernel_len(self) ==
    IF ~Iterable(self.kernel_sizes) THEN "TypeError"
    ELSE B(EqInt(Len(self.kernel_sizes.items), self.n_convs_per_level))
valid_kernel_pairs(self) == AllPairs(self.kernel_sizes)
valid_kernel_ints(self) == AllPositiveInts(self.kernel_sizes)
valid_padding_kind(self) ==
    OrElse(B(IsInstanceInt(self.padding)), InStrSet(self.padding, {"same", "valid"}))
valid_padding_sign(self) == OrElse(B(IsInstanceStr(self.padding)), Ge(self.padding, 0))
valid_levels_Ge(self) == Ge(self.levels, 0)
valid_levels(self) == Gt(self.levels, 0)
valid_mode(self) == InStrSet(self.mode, {"direct", "fpn"})
valid_dropout(self) == AndThen(LeRev(0, self.dropout), Le(self.dropout, 1))

ModelIsValid(self) ==
    FirstFailure(<< valid_backbone(self), valid_in_channels(self), valid_out_channels(self),
                    valid_initial_fmaps(self), valid_n_convs_per_level(self),
                    valid_downsample_pairs(self), valid_downsample_ints(self),
                    valid_kernel_len(self), valid_kernel_pairs(self), valid_kernel_ints(self),
                    valid_padding_kind(self), valid_padding_sign(self), valid_levels(self),
                    valid_mode(self), valid_dropout(self) >>)

\* SpotipyModelConfig(**kw): the attributes are assigned, then is_valid() runs.
SpotipyModelConfig(kw) ==
    IF ModelInitRaises(kw) THEN Raised("TypeError")
    ELSE LET self == ModelInitFields(kw)
             r == ModelIsValid(self)
         IN  IF r = "ok" THEN Built(self) ELSE Raised(r)

\* The keyword arguments a caller gives, by parameter: values other than the default.
ModelArgValues ==
    [ backbone |-> {PyStr("resnet"), PyStr("vgg"), PyList(<<PyStr("unet")>>), PyNone},
      in_channels |-> {PyInt(3), PyInt(0), PyInt(-1), PyBool(TRUE), PyFloat(20000), PyNone},
      out_channels |-> {PyInt(2), PyInt(0), PyFloat(10000), PyStr("1")},
      initial_fmaps |-> {PyInt(16), PyInt(0), PyFloat(320000)},
      n_convs_per_level |-> {PyInt(1), PyInt(2), PyInt(0), PyInt(-1), PyFloat(25000),
                             PyFloat(30000), PyBool(TRUE), PyNone},
      downsample_factor |-> {PyInt(1), PyInt(0), PyFloat(20000), PyStr("a")},
      kernel_size |-> {PyInt(1), PyInt(0), PyFloat(30000)},
      padding |-> {PyStr("valid"), PyStr("full"), PyInt(0), PyInt(1), PyInt(-1),
                   PyFloat(10000), PyList(<<PyInt(1)>>), PyNone, PyBool(TRUE)},
      levels |-> {PyInt(1), PyInt(0), PyInt(-1), PyFloat(25000), PyFloat(-10000),
                  PyStr("4"), PyNone, PyBool(TRUE)},
      mode |-> {PyStr("fpn"), PyStr("unet"), PyList(<<>>)},
      background_remover |-> {PyBool(FALSE), PyInt(0), PyStr("no")},
      batch_norm |-> {PyBool(TRUE), PyNone},
      downsample_factors |->
          { PyTuple(<<PyTuple(<<PyInt(2), PyInt(2)>>)>>),
            PyTuple(<<>>),
            PyTuple(<<PyTuple(<<PyInt(2), PyInt(1)>>), PyTuple(<<PyInt(2)>>)>>),
            PyTuple(<<PyInt(2), PyInt(2)>>),
            PyTuple(<<PyTuple(<<PyInt(2), PyInt(0)>>)>>),
            PyTuple(<<PyTuple(<<PyInt(2), PyFloat(20000)>>)>>),
            PyList(<<PyList(<<PyInt(2), PyInt(2)>>)>>),
            PyInt(2) },
      kernel_sizes |->
          { PyTuple(<<PyTuple(<<PyInt(3), PyInt(3)>>), PyTuple(<<PyInt(3), PyInt(5)>>),
                      PyTuple(<<PyInt(1), PyInt(1)>>)>>),
            PyTuple(<<PyTuple(<<PyInt(3), PyInt(3)>>)>>),
            PyTuple(<<PyTuple(<<PyInt(3), PyInt(3)>>), PyTuple(<<PyInt(3), PyInt(-3)>>)>>),
            PyTuple(<<PyTuple(<<PyInt(3), PyInt(3), PyInt(3)>>)>>),
            PyTuple(<<PyInt(3)>>),
            PyTuple(<<>>),
            PyInt(3) },
      dropout |-> {PyFloat(5000), PyFloat(10000), PyFloat(15000), PyFloat(-5000), PyInt(1),
                   PyInt(2), PyBool(TRUE), PyStr("0.5"), PyNone},
      run_name |-> {PyStr("run")} ]

\* The caller adds one keyword argument to the call it prepares.
MCGive ==
    \E f \in DOMAIN ModelArgValues \ DOMAIN mc_args :
        \E v \in ModelArgValues[f] :
            /\ mc_result.kind = "none"
            /\ Cardinality(DOMAIN mc_args) < MaxOverrides
            /\ mc_args' = (f :> v) @@ mc_args
            /\ UNCHANGED mc_result

\* SpotipyModelConfig(**mc_args)
MCConstruct ==
    /\ mc_result.kind = "none"
    /\ mc_result' = SpotipyModelConfig(mc_args)
    /\ UNCHANGED mc_args

\* The caller is done with the outcome and prepares another call.
MCDiscard ==
    /\ mc_result.kind # "none"
    /\ mc_args' = NoKwargs
    /\ mc_result' = NotBuilt

(***************************************************************************)
(* SpotipyTrainingConfig                                                   *)
(***************************************************************************)
TrainingDefaults ==
    [ sigma |-> PyFloat(10000), crop_size |-> PyInt(512), smart_crop |-> PyBool(FALSE),
      loss_f |-> PyStr("bce"), num_train_samples |-> PyNone, pos_weight |-> PyFloat(100000),
      lr |-> PyFloat(3), optimizer |-> PyStr("adamw"), batch_size |-> PyInt(4),
      num_epochs |-> PyInt(200) ]

\* The attributes assigned by lines 122-131.
TrainingInitFields(kw) ==
    LET a(f) == Arg(kw, TrainingDefaults, f)
    IN  [ sigma |-> a("sigma"),
          crop_size |-> a("crop_size"),
          smart_crop |-> PyBool(Truthy(a("smart_crop"))),
          loss_f |-> a("loss_f"),
          pos_weight |-> a("pos_weight"),
          lr |-> a("lr"),
          optimizer |-> a("optimizer"),
          batch_size |-> a("batch_size"),
          num_epochs |-> a("num_epochs"),
          num_train_samples |-> a("num_train_samples") ]

\* The asserts of SpotipyTrainingConfig.is_valid, one operator per line.
valid_sigma(self) == AndThen(B(IsInstanceNumber(self.sigma)), Ge(self.sigma, 0))
valid_crop_size(self) == PositiveInt(self.crop_size)
valid_loss_f(self) == InStrSet(self.loss_f, {"bce", "mse", "smoothl1", "adawing"})
valid_pos_weight(self) == AndThen(B(IsInstanceNumber(self.pos_weight)), Gt(self.pos_weight, 0))
valid_lr_Number(self) == AndThen(B(IsInstanceNumber(self.lr)), Gt(self.lr, 0))
valid_lr(self) == AndThen(B(IsInstanceFloat(self.lr)), Gt(self.lr, 0))
valid_optimizer(self) == InStrSet(self.optimizer, {"adamw"})
valid_batch_size(self) == PositiveInt(self.batch_size)
valid_num_epochs(self) == PositiveInt(self.num_epochs)

TrainingIsValid(self) ==
    FirstFailure(<< valid_sigma(self), valid_crop_size(self), valid_loss_f(self),
                    valid_pos_weight(self), valid_lr(self), valid_optimizer(self),
                    valid_batch_size(self), valid_num_epochs(self) >>)

\* SpotipyTrainingConfig(**kw)
SpotipyTrainingConfig(kw) ==
    LET self == TrainingInitFields(kw)
        r == TrainingIsValid(self)
    IN  IF r = "ok" THEN Built(self) ELSE Raised(r)

TrainingArgValues ==
    [ sigma |-> {PyInt(0), PyInt(2), PyFloat(0), PyFloat(-5000), PyInt(-1), PyBool(TRUE),
                 PyStr("1"), PyNone, PyComplex},
      crop_size |-> {PyInt(256), PyInt(0), PyInt(-1), PyFloat(5120000), PyStr("512"), PyNone},
      smart_crop |-> {PyBool(TRUE), PyInt(1), PyStr("")},
      loss_f |-> {PyStr("mse"), PyStr("smoothl1"), PyStr("adawing"), PyStr("l1"), PyNone,
                  PyList(<<PyStr("bce")>>)},
      num_train_samples |-> {PyInt(100), PyInt(-1)},
      pos_weight |-> {PyInt(1), PyInt(0), PyFloat(0), PyFloat(-10000), PyBool(TRUE),
                      PyStr("10"), PyNone, PyComplex},
      lr |-> {PyFloat(1000), PyFloat(0), PyFloat(-3), PyInt(1), PyBool(TRUE), PyStr("3e-4"),
              PyNone, PyComplex},
      optimizer |-> {PyStr("adam"), PyStr("sgd"), PyNone, PyList(<<PyStr("adamw")>>)},
      batch_size |-> {PyInt(1), PyInt(0), PyFloat(40000), PyNone},
      num_epochs |-> {PyInt(1), PyInt(0), PyInt(-5), PyFloat(10000)},
      run_name |-> {PyStr("run")} ]

TCGive ==
    \E f \in DOMAIN TrainingArgValues \ DOMAIN tc_args :
        \E v \in TrainingArgValues[f] :
            /\ tc_result.kind = "none"
            /\ Cardinality(DOMAIN tc_args) < MaxOverrides
            /\ tc_args' = (f :> v) @@ tc_args
            /\ UNCHANGED tc_result

\* SpotipyTrainingConfig(**tc_args)
TCConstruct ==
    /\ tc_result.kind = "none"
    /\ tc_result' = SpotipyTrainingConfig(tc_args)
    /\ UNCHANGED tc_args

TCDiscard ==
    /\ tc_result.kind # "none"
    /\ tc_args' = NoKwargs
    /\ tc_result' = NotBuilt

ConfigInit ==
    /\ mc_args = NoKwargs /\ mc_result = NotBuilt
    /\ tc_args = NoKwargs /\ tc_result = NotBuilt

(***************************************************************************)
(* ---------------- spotipy_torch/model/post.py ----------------           *)
(* A tensor is [t, shape, term]: shape is <<batch, channels, height,       *)
(* width>> and term is the expression that produced it, in prefix          *)
(* notation, a sequence of tokens [op, i].  None is a value with t "None". *)
(***************************************************************************)
Tok(op, i) == [op |-> op, i |-> i]

Tensor(shape, term) == [t |-> "Tensor", shape |-> shape, term |-> term]
None == [t |-> "None", shape |-> <<>>, term |-> <<>>]
\* The value of an expression that raised.
Err(exc) == [t |-> exc, shape |-> <<>>, term |-> <<>>]

IsTensor(x) == x.t = "Tensor"
IsErr(x) == x.t \notin {"Tensor", "None"}

\* list[k] with Python's indexing: k counts from 0, a negative k from the end.
IndexOk(list, k) == -Len(list) <= k /\ k < Len(list)
Item(list, k) == IF k < 0 THEN list[Len(list) + k + 1] ELSE list[k + 1]

\* nn.Conv2d(in_channels, out_channels, kernel_size, padding), stride 1.
Conv2d(name, i, cin, cout, k, pad) ==
    [name |-> name, i |-> i, in_channels |-> cin, out_channels |-> cout,
     kernel_size |-> k, padding |-> pad]

\* conv(x): the channel count must be the module's; the spatial size follows
\* from the kernel and the padding.
ApplyConv(conv, x) ==
    IF IsErr(x) THEN x
    ELSE IF ~IsTensor(x) THEN Err("TypeError")
    ELSE LET h == x.shape[3] + 2 * conv.padding - conv.kernel_size + 1
             w == x.shape[4] + 2 * conv.padding - conv.kernel_size + 1
         IN  IF x.shape[2] # conv.in_channels \/ h < 1 \/ w < 1 THEN Err("RuntimeError")
             ELSE Tensor(<<x.shape[1], conv.out_channels, h, w>>,
                         <<Tok(conv.name, conv.i)>> \o x.term)

InterpolatingModes == {"linear", "bilinear", "bicubic", "trilinear"}

\* F.interpolate(x, size=of.shape[-2:], mode, align_corners): align_corners may
\* only be set with an interpolating mode; "None" is align_corners=None.
Interpolate(x, of, ofIdx, mode, align_corners) ==
    IF IsErr(x) THEN x
    ELSE IF ~IsTensor(x) \/ ~IsTensor(of) THEN Err("TypeError")
    ELSE IF align_corners # "None" /\ mode \notin InterpolatingModes THEN Err("ValueError")
    ELSE Tensor(<<x.shape[1], x.shape[2], of.shape[3], of.shape[4]>>,
                <<Tok("interpolate_to", ofIdx)>> \o x.term)

\* a + b with broadcasting: each dimension equal, or 1 on one side.
Broadcastable(a, b) == \A d \in 1 .. 4 : a.shape[d] = b.shape[d] \/ a.shape[d] = 1 \/ b.shape[d] = 1
Add(a, b) ==
    IF IsErr(a) THEN a
    ELSE IF IsErr(b) THEN b
    ELSE IF ~IsTensor(a) \/ ~IsTensor(b) THEN Err("TypeError")
    ELSE IF ~Broadcastable(a, b) THEN Err("RuntimeError")
    ELSE Tensor([d \in 1 .. 4 |-> IF a.shape[d] >= b.shape[d] THEN a.shape[d] ELSE b.shape[d]],
                <<Tok("add", 0)>> \o a.term \o b.term)

\* The 1x1 convolutions of lines 30-41 and the 3x3 convolutions of lines 42-53.
Premerger(i, c, out_channels) == Conv2d("premerger", i, c, out_channels, 1, 0)
Smoother_NoPadding(i, out_channels) == Conv2d("smoother", i, out_channels, out_channels, 3, 0)
Smoother(i, out_channels) == Conv2d("smoother", i, out_channels, out_channels, 3, 1)

\* The module FeaturePyramidNetwork(in_channels_list, out_channels,
\* interpolation_mode=..., align_corners=..., extra_modules=...) builds;
\* extra_modules is given by its length, -1 standing for None.
FeaturePyramidNetwork(in_channels_list, out_channels, interpolation_mode, align_corners, extra_modules) ==
    [ constructed |-> TRUE,
      exc |-> "",
      in_channels_list |-> in_channels_list,
      out_channels |-> out_channels,
      premergers |-> [i \in DOMAIN in_channels_list |->
                         Premerger(i - 1, in_channels_list[i], out_channels)],
      smoothers |-> [i \in DOMAIN in_channels_list |-> Smoother(i - 1, out_channels)],
      interpolation_mode |-> interpolation_mode,
      align_corners |-> IF interpolation_mode \in InterpolatingModes
                        THEN align_corners ELSE "None",
      extra_modules |-> extra_modules ]

NoFPN ==
    [ constructed |-> FALSE, exc |-> "", in_channels_list |-> <<>>, out_channels |-> 0,
      premergers |-> <<>>, smoothers |-> <<>>, interpolation_mode |-> "",
      align_corners |-> "None", extra_modules |-> -1 ]

\* The frame of forward(): the locals and the line about to run.
Frame(pc, feature_maps, fpn_outputs, idx, smoothed, exc) ==
    [pc |-> pc, feature_maps |-> feature_maps, fpn_outputs |-> fpn_outputs, idx |-> idx,
     smoothed_fpn_output |-> smoothed, exc |-> exc]
Idle == Frame("idle", <<>>, <<>>, 0, <<>>, "")

\* The inputs of the model: channel counts, spatial sizes, feature maps.
Channels == {1, 2}
OutChannels == {3}
Sizes == {<<4, 2>>, <<2, 1>>}
RECURSIVE SeqsUpTo(_, _)
SeqsUpTo(S, n) ==
    IF n = 0 THEN {<<>>}
    ELSE LET shorter == SeqsUpTo(S, n - 1)
         IN  shorter \cup {Append(q, x) : q \in shorter, x \in S}
FeatureMap(i, c, size) == Tensor(<<1, c, size[1], size[2]>>, <<Tok("feature_map", i)>>)
FeatureMapLists ==
    { [i \in DOMAIN q |-> FeatureMap(i - 1, q[i][1], q[i][2])] :
        q \in SeqsUpTo(Channels \X Sizes, MaxLevels) }

\* __init__: the assert of lines 61-64 fails on an extra_modules of another
\* length than in_channels_list, and no module is built.
FPNConstruct ==
    /\ ~fpn.constructed
    /\ \E l \in SeqsUpTo(Channels, MaxLevels), out \in OutChannels,
          mode \in {"bilinear", "nearest"}, extra \in {-1, 0, 2} :
            IF extra # -1 /\ extra # Len(l)
            THEN fpn' = [NoFPN EXCEPT !.exc = "AssertionError"]
            ELSE fpn' = FeaturePyramidNetwork(l, out, mode, "True", extra)
    /\ UNCHANGED fwd

\* forward(feature_maps) is entered; line 74.
FwdCall ==
    /\ fpn.constructed /\ fwd.pc = "idle"
    /\ \E fms \in FeatureMapLists :
          fwd' = Frame("L75", fms, [i \in DOMAIN fms |-> None], 0, <<>>, "")
    /\ UNCHANGED fpn

\* Line 75: fpn_outputs[-1] = self.premergers[-1](feature_maps[-1])
FwdPremergeLast ==
    /\ fwd.pc = "L75"
    /\ LET fms == fwd.feature_maps
           out == IF ~IndexOk(fpn.premergers, -1) \/ ~IndexOk(fms, -1) THEN Err("IndexError")
                  ELSE ApplyConv(Item(fpn.premergers, -1), Item(fms, -1))
           n == Len(fwd.fpn_outputs)
       IN  IF IsErr(out)
           THEN fwd' = [fwd EXCEPT !.pc = "raised", !.exc = out.t]
           ELSE fwd' = [fwd EXCEPT !.fpn_outputs[n] = out,
                                   !.idx = n - 2,
                                   !.pc = IF n - 2 >= 0 THEN "L76" ELSE "L88"]
    /\ UNCHANGED fpn

\* Lines 78-85: the merged map of level idx.
MergeLevel_NoTopDown(net, fms, outputs, idx) ==
    IF ~IndexOk(net.premergers, idx) \/ ~IndexOk(net.premergers, idx + 1) THEN Err("IndexError")
    ELSE Add(Interpolate(ApplyConv(Item(net.premergers, idx + 1), Item(fms, idx + 1)),
                         Item(fms, idx), idx, net.interpolation_mode, net.align_corners),
             ApplyConv(Item(net.premergers, idx), Item(fms, idx)))

MergeLevel(net, fms, outputs, idx) ==
    LET upsampled == Interpolate(Item(outputs, idx + 1), Item(fms, idx), idx,
                                 net.interpolation_mode, net.align_corners)
    IN  IF IsErr(upsampled) THEN upsampled
        ELSE IF ~IndexOk(net.premergers, idx) THEN Err("IndexError")
        ELSE Add(upsampled, ApplyConv(Item(net.premergers, idx), Item(fms, idx)))

\* One pass of the loop of line 76, idx running from len - 2 down to 0.
FwdMerge ==
    /\ fwd.pc = "L76"
    /\ LET out == MergeLevel(fpn, fwd.feature_maps, fwd.fpn_outputs, fwd.idx)
       IN  IF IsErr(out)
           THEN fwd' = [fwd EXCEPT !.pc = "raised", !.exc = out.t]
           ELSE fwd' = [fwd EXCEPT !.fpn_outputs[fwd.idx + 1] = out,
                                   !.idx = fwd.idx - 1,
                                   !.pc = IF fwd.idx - 1 >= 0 THEN "L76" ELSE "L88"]
    /\ UNCHANGED fpn

\* Lines 88-90: one element of the comprehension, self.smoothers[i](val).
SmoothLevel(net, outputs, i) ==
    IF ~IndexOk(net.smoothers, i) THEN Err("IndexError")
    ELSE ApplyConv(Item(net.smoothers, i), Item(outputs, i))

FwdSmooth ==
    /\ fwd.pc = "L88"
    /\ Len(fwd.smoothed_fpn_output) < Len(fwd.fpn_outputs)
    /\ LET out == SmoothLevel(fpn, fwd.fpn_outputs, Len(fwd.smoothed_fpn_output))
       IN  IF IsErr(out)
           THEN fwd' = [fwd EXCEPT !.pc = "raised", !.exc = out.t]
           ELSE fwd' = [fwd EXCEPT !.smoothed_fpn_output = Append(@, out)]
    /\ UNCHANGED fpn

\* Line 91: return smoothed_fpn_output
FwdReturn ==
    /\ fwd.pc = "L88"
    /\ Len(fwd.smoothed_fpn_output) = Len(fwd.fpn_outputs)
    /\ fwd' = [fwd EXCEPT !.pc = "done"]
    /\ UNCHANGED fpn

\* The caller has the result, or the exception, and the frame is gone.
FwdDiscard ==
    /\ fwd.pc \in {"done", "raised"}
    /\ fwd' = Idle
    /\ UNCHANGED fpn

FPNInit == fpn = NoFPN /\ fwd = Idle

(***************************************************************************)
(* Specifications.                                                         *)
(***************************************************************************)
Init ==
    /\ PreInit
    /\ ConfigInit
    /\ FPNInit

NextPretrained == CallPretrained /\ UNCHANGED <<mcVars, tcVars, fpnVars>>

SpecPretrained == Init /\ [][NextPretrained]_vars

NextModelConfig ==
    \/ MCGive /\ UNCHANGED <<preVars, tcVars, fpnVars>>
    \/ MCConstruct /\ UNCHANGED <<preVars, tcVars, fpnVars>>
    \/ MCDiscard /\ UNCHANGED <<preVars, tcVars, fpnVars>>

SpecModelConfig == Init /\ [][NextModelConfig]_vars

NextTrainingConfig ==
    \/ TCGive /\ UNCHANGED <<preVars, mcVars, fpnVars>>
    \/ TCConstruct /\ UNCHANGED <<preVars, mcVars, fpnVars>>
    \/ TCDiscard /\ UNCHANGED <<preVars, mcVars, fpnVars>>

SpecTrainingConfig == Init /\ [][NextTrainingConfig]_vars

NextFPN ==
    \/ FPNConstruct /\ UNCHANGED <<preVars, mcVars, tcVars>>
    \/ FwdCall /\ UNCHANGED <<preVars, mcVars, tcVars>>
    \/ FwdPremergeLast /\ UNCHANGED <<preVars, mcVars, tcVars>>
    \/ FwdMerge /\ UNCHANGED <<preVars, mcVars, tcVars>>
    \/ FwdSmooth /\ UNCHANGED <<preVars, mcVars, tcVars>>
    \/ FwdReturn /\ UNCHANGED <<preVars, mcVars, tcVars>>
    \/ FwdDiscard /\ UNCHANGED <<preVars, mcVars, tcVars>>

SpecFPN == Init /\ [][NextFPN]_vars

(***************************************************************************)
(* Claims about the pretrained-model registry.                             *)
(***************************************************************************)
\* The last call raised NotRegisteredError exactly when its name is not registered.
C1_RaisesIff ==
    pre_result.kind # "none" =>
        /\ pre_result.kind \in {"raise", "return"}
        /\ (pre_result.kind = "raise") <=> (pre_result.name \notin list_registered)
        /\ pre_result.kind = "raise" => pre_result.exc = "NotRegisteredError"

\* A call that raises makes no call to get_file and leaves the cache as it was.
C1_RaiseTouchesNothing ==
    pre_result'.kind = "raise" => UNCHANGED <<fs, get_file_calls>>

\* C1: get_pretrained_model_path(name) raises NotRegisteredError if and only if
\* name is not among list_registered(); a raising call never calls get_file, so
\* nothing is downloaded and the cache directory is unchanged.
C1_NotRegistered == [](C1_RaisesIff) /\ [][C1_RaiseTouchesNothing]_vars

\* An unregistered name was rejected after an earlier download filled the cache.
C1_Witness ==
    /\ pre_result.kind = "raise"
    /\ pre_result.name \notin list_registered
    /\ fs # {}
    /\ Len(get_file_calls) = 1

DocumentedDir == Join(Home, Comp(".spotiflow", ""))

\* C2: for every registered name the archive is downloaded to ~/.spotiflow and
\* the returned extraction folder is ~/.spotiflow/<name>.
C2_DocumentedLocation ==
    pre_result.kind = "return" =>
        /\ pre_result.name \in list_registered
        /\ Join(DocumentedDir, Comp(pre_result.name, ".zip")) \in fs
        /\ pre_result.path = Join(DocumentedDir, Comp(pre_result.name, ""))

(***************************************************************************)
(* Claims about SpotipyModelConfig.                                        *)
(***************************************************************************)
IsPositiveInteger(v) == v.t \in {"int", "bool"} /\ v.n > 0
IsNumeric(v) == v.t \in {"int", "bool", "float"}
IsPairOfPositiveIntegers(e) ==
    /\ e.t = "tuple"
    /\ Len(e.items) = 2
    /\ \A j \in 1 .. 2 : IsPositiveInteger(e.items[j])
IsCollection(v) == v.t \in {"tuple", "list"}

\* What C3 says of a constructed SpotipyModelConfig.
ModelConfigProps(c) ==
    /\ c.backbone \in {PyStr("resnet"), PyStr("unet")}
    /\ c.mode \in {PyStr("direct"), PyStr("fpn")}
    /\ IsPositiveInteger(c.in_channels)
    /\ IsPositiveInteger(c.out_channels)
    /\ IsPositiveInteger(c.initial_fmaps)
    /\ IsPositiveInteger(c.n_convs_per_level)
    /\ IsNumeric(c.levels) /\ Scaled(c.levels) > 0
    /\ IsCollection(c.kernel_sizes)
    /\ Len(c.kernel_sizes.items) = c.n_convs_per_level.n
    /\ \A i \in DOMAIN c.kernel_sizes.items : IsPairOfPositiveIntegers(c.kernel_sizes.items[i])
    /\ IsCollection(c.downsample_factors)
    /\ \A i \in DOMAIN c.downsample_factors.items :
           IsPairOfPositiveIntegers(c.downsample_factors.items[i])
    /\ \/ c.padding \in {PyStr("same"), PyStr("valid")}
       \/ c.padding.t \in {"int", "bool"} /\ c.padding.n >= 0
    /\ IsNumeric(c.dropout) /\ 0 <= Scaled(c.dropout) /\ Scaled(c.dropout) <= 10000

\* The arguments of the last construction violate one of the properties.
ModelArgsViolate == ~ModelConfigProps(ModelInitFields(mc_args))

\* The arguments on which a check, or a range() before the checks, cannot be
\* evaluated: a count that is no int, an unhashable name, a value that does
\* not compare with a number, a collection argument that is no collection.
ModelArgsIllTyped ==
    LET a(f) == Arg(mc_args, ModelDefaults, f)
    IN  \/ a("kernel_sizes") = PyNone /\ ~IsInstanceInt(a("n_convs_per_level"))
        \/ a("downsample_factors") = PyNone /\ ~IsInstanceInt(a("levels"))
        \/ a("kernel_sizes") # PyNone /\ ~IsCollection(a("kernel_sizes"))
        \/ a("downsample_factors") # PyNone /\ ~IsCollection(a("downsample_factors"))
        \/ \E f \in {"backbone", "mode", "padding"} : a(f).t = "list"
        \/ \E f \in {"levels", "dropout"} : ~IsNumeric(a(f))

\* C3 as stated: a constructed config has the properties, and arguments
\* violating one of them fail with an assertion error.
C3_AssertionErrorOnly ==
    /\ mc_result.kind = "ok" => ModelConfigProps(mc_result.cfg)
    /\ (mc_result.kind # "none" /\ ModelArgsViolate) =>
           (mc_result.kind = "raise" /\ mc_result.exc = "AssertionError")

\* C3 as amended: a constructed config has the properties; arguments violating
\* one of them never yield a config: construction fails with an assertion
\* error, or with a TypeError, and that only on ill-typed arguments.
C3_ValidOrRaises ==
    /\ mc_result.kind = "ok" => ModelConfigProps(mc_result.cfg)
    /\ (mc_result.kind # "none" /\ ModelArgsViolate) =>
           /\ mc_result.kind = "raise"
           /\ mc_result.exc \in {"AssertionError", "TypeError"}
           /\ mc_result.exc = "TypeError" => ModelArgsIllTyped

\* Two violations at once, levels = 0 and a kernel_sizes of the wrong length,
\* were rejected by an assertion.
C3_Witness ==
    /\ mc_result.kind = "raise" /\ mc_result.exc = "AssertionError"
    /\ DOMAIN mc_args = {"levels", "kernel_sizes"}
    /\ mc_args["levels"] = PyInt(0)
    /\ Len(mc_args["kernel_sizes"].items) = 1

(***************************************************************************)
(* Claims about SpotipyTrainingConfig.                                     *)
(***************************************************************************)
\* What C4 says of a constructed SpotipyTrainingConfig.
TrainingConfigProps(c) ==
    /\ c.sigma.t \in {"int", "bool", "float"} /\ Scaled(c.sigma) >= 0
    /\ IsPositiveInteger(c.crop_size)
    /\ IsPositiveInteger(c.batch_size)
    /\ IsPositiveInteger(c.num_epochs)
    /\ c.loss_f \in {PyStr("bce"), PyStr("mse"), PyStr("smoothl1"), PyStr("adawing")}
    /\ c.pos_weight.t \in {"int", "bool", "float"} /\ Scaled(c.pos_weight) > 0
    /\ c.lr.t = "float" /\ c.lr.n > 0
    /\ c.optimizer = PyStr("adamw")

TrainingArgsViolate == ~TrainingConfigProps(TrainingInitFields(tc_args))

\* The arguments on which a check cannot be evaluated: an unhashable loss_f or
\* optimizer, a complex sigma, pos_weight or lr.
TrainingArgsIllTyped ==
    LET a(f) == Arg(tc_args, TrainingDefaults, f)
    IN  \/ \E f \in {"loss_f", "optimizer"} : a(f).t = "list"
        \/ \E f \in {"sigma", "pos_weight"} : a(f).t = "complex"

\* C4 as stated: a constructed config has the properties, and arguments
\* violating one of them fail with an assertion error.
C4_AssertionErrorOnly ==
    /\ tc_result.kind = "ok" => TrainingConfigProps(tc_result.cfg)
    /\ (tc_result.kind # "none" /\ TrainingArgsViolate) =>
           (tc_result.kind = "raise" /\ tc_result.exc = "AssertionError")

\* C4 as amended: a constructed config has the properties; arguments violating
\* one of them never yield a config: construction fails with an assertion
\* error, or with a TypeError, and that only on an unhashable loss_f or
\* optimizer or a complex sigma or pos_weight.
C4_ValidOrRaises ==
    /\ tc_result.kind = "ok" => TrainingConfigProps(tc_result.cfg)
    /\ (tc_result.kind # "none" /\ TrainingArgsViolate) =>
           /\ tc_result.kind = "raise"
           /\ tc_result.exc \in {"AssertionError", "TypeError"}
           /\ tc_result.exc = "TypeError" => TrainingArgsIllTyped

\* An integer lr of 1 was rejected by an assertion.
C4_Witness ==
    /\ tc_result.kind = "raise" /\ tc_result.exc = "AssertionError"
    /\ DOMAIN tc_args = {"lr"}
    /\ tc_args["lr"] = PyInt(1)

(***************************************************************************)
(* Claims about FeaturePyramidNetwork.forward.                             *)
(***************************************************************************)
\* The call's precondition: one feature map per entry of in_channels_list, at
\* least one, each with the channel count listed for it.
FwdInputsMatch ==
    /\ fwd.pc # "idle"
    /\ Len(fwd.feature_maps) >= 1
    /\ Len(fwd.feature_maps) = Len(fpn.in_channels_list)
    /\ \A i \in DOMAIN fwd.feature_maps :
           fwd.feature_maps[i].shape[2] = fpn.in_channels_list[i]

Deps(x) == {x.term[j].i : j \in {k \in DOMAIN x.term : x.term[k].op = "feature_map"}}
\* The 3x3 convolutions in a tensor's history.
SmoothersIn(x) == {x.term[j].i : j \in {k \in DOMAIN x.term : x.term[k].op = "smoother"}}

\* upsample(merged[i+1]) + premerger_i(feature_maps[i]), and at the last of n
\* levels the last premerger applied to the last feature map.
RECURSIVE MergedTerm(_, _, _)
MergedTerm(i, n, last) ==
    IF i >= n - 1 THEN <<Tok("premerger", last), Tok("feature_map", i)>>
    ELSE <<Tok("add", 0), Tok("interpolate_to", i)>> \o MergedTerm(i + 1, n, last)
             \o <<Tok("premerger", i), Tok("feature_map", i)>>

\* C6: the levels are merged top-down from the last index to index 0: level i
\* is merged only once level i+1 is, as upsample(merged[i+1]) +
\* premerger_i(feature_maps[i]), so that it depends on exactly the inputs of
\* index >= i; the smoothing convolutions run once every level is merged,
\* each on its own level's merged map, and no smoothed map enters a merge.
C6_TopDownThenSmooth ==
    LET n == Len(fwd.fpn_outputs)
        merged(i) == fwd.fpn_outputs[i + 1]
    IN  /\ \A i \in 0 .. n - 2 : IsTensor(merged(i)) => IsTensor(merged(i + 1))
        /\ \A i \in 0 .. n - 1 :
              IsTensor(merged(i)) =>
                  /\ merged(i).term = MergedTerm(i, n, Len(fpn.premergers) - 1)
                  /\ Deps(merged(i)) = i .. n - 1
                  /\ SmoothersIn(merged(i)) = {}
        /\ fwd.smoothed_fpn_output # <<>> => \A i \in 0 .. n - 1 : IsTensor(merged(i))
        /\ Len(fwd.smoothed_fpn_output) <= n
        /\ \A i \in 0 .. Len(fwd.smoothed_fpn_output) - 1 :
              LET y == fwd.smoothed_fpn_output[i + 1]
              IN  /\ y.term = <<Tok("smoother", i)>> \o merged(i).term
                  /\ Deps(y) = i .. n - 1
                  /\ SmoothersIn(y) = {i}

\* Three levels were merged and the first two smoothed, the third not yet.
C6_Witness ==
    /\ fwd.pc = "L88"
    /\ Len(fwd.fpn_outputs) = 3
    /\ Len(fwd.smoothed_fpn_output) = 2
    /\ Deps(fwd.fpn_outputs[1]) = {0, 1, 2}

====
